---- MODULE Spec2Model ----
(***************************************************************************)
(* Model of the contract-analysis backend:                                 *)
(*   backend/app/services/contract_service.py  (extraction, model call,    *)
(*                                              reply parsing, e-mail)     *)
(*   backend/app/routes/contracts.py           (HTTP handlers over the     *)
(*                                              in-process _temp_storage)  *)
(*   backend/app/storage.py                    (JSON files in data_dir)    *)
(*                                                                         *)
(* Three specifications share the module:                                  *)
(*   Spec       the HTTP handlers and the service they call                *)
(*   StoreSpec  save_analysis / get_analysis / list_analyses               *)
(*   ParseSpec  the reply clean-up and json.loads of analyze_contract      *)
(*                                                                         *)
(* Text is a sequence of one-character strings. A JSON document is written *)
(* with a one-letter body between its braces; the letter stands for the    *)
(* members of the object (JsonTable gives the value each text decodes to). *)
(***************************************************************************)
EXTENDS Integers, Sequences, FiniteSets, TLC

VARIABLES
    temp_storage,   \* routes/contracts.py _temp_storage: id -> analysis dict
    reqs,           \* the HTTP requests being served, one record per slot
    lastResp,       \* the latest HTTP response and what producing it invoked
    issued,         \* every value uuid.uuid4() has returned so far
    files,          \* storage.py data_dir: file stem -> file content
    clock,          \* the reading datetime.utcnow() returns
    saved,          \* ghost: the save_analysis calls so far, oldest first
    lastCall,       \* the latest call into storage.py and what it returned
    reply,          \* ParseSpec: the text the model replied with
    content,        \* ParseSpec ghost: the JSON text inside the reply
    fenced,         \* ParseSpec ghost: the reply wraps content in a code fence
    tag,            \* ParseSpec ghost: the language tag after the opening fence
    parsed          \* ParseSpec: outcome of cleaning and parsing reply

vars == <<temp_storage, reqs, lastResp, issued, files, clock, saved, lastCall,
          reply, content, fenced, tag, parsed>>

apiVars   == <<temp_storage, reqs, lastResp>>
storeVars == <<files, clock, saved, lastCall>>
parseVars == <<reply, content, fenced, tag, parsed>>

None == "None"

(***************************************************************************)
(* Bounds of the model.                                                    *)
(***************************************************************************)
MaxIds     == 2    \* how many identifiers uuid4 hands out in one run
NumReqs    == 2    \* request slots served concurrently
MaxWs      == 1    \* longest run of whitespace put around a reply's parts

(***************************************************************************)
(* Program constants.                                                      *)
(***************************************************************************)
MinTextLen       == 50
PreviewLen       == 500

\* Python's None where the other values are integers (an id, a timestamp).
NoneInt == -1

Ids  == 1..MaxIds
Reqs == 1..NumReqs

(***************************************************************************)
(* Python dict access.                                                     *)
(***************************************************************************)
Get(d, k, default) == IF k \in DOMAIN d THEN d[k] ELSE default

Put(d, k, v) == [x \in DOMAIN d \cup {k} |-> IF x = k THEN v ELSE d[x]]

(***************************************************************************)
(* Text: str.strip, str.startswith, and the two re.sub calls.              *)
(***************************************************************************)
Whitespace == {" ", "\n"}

\* "^" stands for the grave accent of a Markdown code fence, which a TLA+
\* string cannot hold.
Fence == <<"^", "^", "^">>

TagJson == <<"j", "s", "o", "n">>

RECURSIVE LStrip(_)
LStrip(s) ==
    IF s = <<>> THEN s
    ELSE IF Head(s) \in Whitespace THEN LStrip(Tail(s)) ELSE s

RECURSIVE RStrip(_)
RStrip(s) ==
    IF s = <<>> THEN s
    ELSE IF s[Len(s)] \in Whitespace THEN RStrip(SubSeq(s, 1, Len(s) - 1)) ELSE s

Strip(s) == RStrip(LStrip(s))

StartsWith(s, p) == Len(s) >= Len(p) /\ SubSeq(s, 1, Len(p)) = p

EndsWith(s, p) == Len(s) >= Len(p) /\ SubSeq(s, Len(s) - Len(p) + 1, Len(s)) = p

Drop(s, n) == SubSeq(s, n + 1, Len(s))

\* re.sub of the leading pattern, line 155: the pattern is the fence, then
\* j s o, then an optional n, then whitespace; it is anchored at the start.
SubLeadingFence(s) ==
    IF StartsWith(s, Fence \o <<"j", "s", "o">>)
    THEN LET rest == Drop(s, 6)
         IN  IF rest # <<>> /\ Head(rest) = "n" THEN LStrip(Tail(rest))
             ELSE LStrip(rest)
    ELSE s

\* re.sub of the trailing pattern, line 156: whitespace, the fence, end of
\* text (the text was stripped, so it never ends in a newline here).
SubTrailingFence(s) ==
    IF EndsWith(s, Fence) THEN RStrip(SubSeq(s, 1, Len(s) - 3)) ELSE s

\* response.text.strip() and the code-fence clean-up.
CleanReply(raw) ==
    LET t == Strip(raw)
    IN  IF StartsWith(t, Fence) THEN SubTrailingFence(SubLeadingFence(t)) ELSE t

(***************************************************************************)
(* JSON. The documents the model can reply with, and what they decode to.  *)
(***************************************************************************)
Clause(level) == [type |-> "payment_terms", risk_level |-> level]

Summary(g, y, r) ==
    [total_clauses |-> g + y + r, green_count |-> g, yellow_count |-> y,
     red_count |-> r]

DocGreen  == <<"{", "G", "}">>
DocYellow == <<"{", "Y", "}">>
DocRed    == <<"{", "R", "}">>
DocEmpty  == <<"{", "}">>
DocNot    == <<"{", "N", "}">>
DocArray  == <<"[", "]">>

\* A text that is no JSON document.
Garbage == <<"x">>

JsonTable ==
    [t \in {DocGreen, DocYellow, DocRed, DocEmpty, DocNot, DocArray} |->
        CASE t = DocGreen ->
               [summary |-> Summary(1, 0, 0), clauses |-> <<Clause("green")>>,
                next_steps |-> <<"sign">>]
          [] t = DocYellow ->
               [summary |-> Summary(1, 1, 0),
                clauses |-> <<Clause("green"), Clause("yellow")>>,
                next_steps |-> <<"ask">>]
          [] t = DocRed ->
               [summary |-> Summary(0, 0, 1), clauses |-> <<Clause("red")>>,
                next_steps |-> <<"ask">>]
          [] t = DocEmpty -> [x \in {} |-> None]
          [] t = DocNot ->
               [not_a_contract |-> TRUE, document_type |-> "grocery list"]
          [] t = DocArray -> [items |-> <<>>]]

\* json.loads: whitespace around the document is allowed; any other text
\* raises JSONDecodeError. isdict tells a JSON object from another value.
json_loads(t) ==
    LET core == Strip(t)
    IN  IF core \in DOMAIN JsonTable
        THEN [ok |-> TRUE, isdict |-> core # DocArray, value |-> JsonTable[core]]
        ELSE [ok |-> FALSE, isdict |-> FALSE, value |-> [error |-> "JSONDecodeError"]]

\* contract_service.py lines 151-161: the reply text to the parsed value.
ParseReply(raw) == json_loads(CleanReply(raw))

(***************************************************************************)
(* Extracted text, by its length: lead whitespace characters and then body *)
(* characters that begin and end with a non-blank one.                     *)
(***************************************************************************)
TextLen(text) == text.lead + text.body

StrippedLen(text) == text.body

\* contract_service.py line 186: the first 500 characters and an ellipsis
\* when the text is longer, else the text itself.
Preview(text) ==
    IF TextLen(text) > PreviewLen
    THEN [len |-> PreviewLen + 3, ellipsis |-> TRUE]
    ELSE [len |-> TextLen(text), ellipsis |-> FALSE]

\* contract_service.py lines 184-186.
AddMetadata(analysis, filename, country, text) ==
    Put(Put(Put(analysis, "filename", filename), "country", country),
        "contract_text_preview", Preview(text))

(***************************************************************************)
(* File names, as text.                                                    *)
(***************************************************************************)
NamePdf     == <<"a", ".", "P", "D", "F">>
NameExe     == <<"d", ".", "e", "x", "e">>
NamePasted  == <<"p", "a", "s", "t", "e", "d", "_", "c", "o", "n", "t", "r", "a",
                 "c", "t", ".", "t", "x", "t">>

LowerChar(c) ==
    CASE c = "P" -> "p" [] c = "D" -> "d" [] c = "F" -> "f" [] OTHER -> c

Lower(s) == [i \in 1..Len(s) |-> LowerChar(s[i])]

ExtPdf  == <<".", "p", "d", "f">>
ExtDocx == <<".", "d", "o", "c", "x">>
ExtTxt  == <<".", "t", "x", "t">>

\* routes/contracts.py line 34.
allowed_extensions == {ExtPdf, ExtDocx, ExtTxt}

(***************************************************************************)
(* contract_service.py                                                     *)
(***************************************************************************)
\* An uploaded file: whether reading it raises, its size in bytes, whether
\* the PDF and DOCX libraries can parse it, and the text it holds.
UploadFile(readable, size, parses, lead, body) ==
    [readable |-> readable, size |-> size, parses |-> parses,
     text |-> [lead |-> lead, body |-> body]]

\* lines 44-56 with 20-41: extraction by lower-cased extension. The PDF and
\* DOCX libraries raise on bytes they cannot parse, wrapped in ValueError;
\* decoding as UTF-8 with errors ignored never raises.
extract_text(file, filename) ==
    IF EndsWith(Lower(filename), ExtPdf) \/ EndsWith(Lower(filename), ExtDocx)
    THEN IF file.parses THEN [ok |-> TRUE, text |-> file.text]
         ELSE [ok |-> FALSE, text |-> file.text]
    ELSE [ok |-> TRUE, text |-> file.text]

\* lines 164-181: the reply to a document that is no contract. The message
\* is one of five templates around document_type; which one random.choice
\* draws is not told apart, no code reads the message back.
RejectionRecord(analysis, filename) ==
    [not_a_contract |-> TRUE, prank_detected |-> TRUE,
     document_type |-> Get(analysis, "document_type", "random document"),
     message |-> "funny_message", filename |-> filename]

\* What the external model does with one generate_content call: it raises,
\* or it returns a text.
ModelRaises == [raises |-> TRUE, text |-> <<>>]

ModelReturns(t) == [raises |-> FALSE, text |-> t]

\* The length check done on the untrimmed text.
TooShortUntrimmed(text) == TextLen(text) < MinTextLen

\* line 137: not contract_text or len(contract_text.strip()) < 50.
TooShort(text) == TextLen(text) = 0 \/ StrippedLen(text) < MinTextLen

\* lines 125-188. The outcome carries how often extraction and the model
\* were invoked on the way.
analyze_contract(file, filename, country, outcome) ==
    LET ex == extract_text(file, filename)
        js == ParseReply(outcome.text)
    IN  IF ~ex.ok
        THEN [status |-> "ValueError", extract |-> 1, model |-> 0]
        ELSE IF TooShort(ex.text)
        THEN [status |-> "ValueError", extract |-> 1, model |-> 0]
        ELSE IF outcome.raises
        THEN [status |-> "Exception", extract |-> 1, model |-> 1]
        ELSE IF ~js.ok
        THEN [status |-> "ValueError", extract |-> 1, model |-> 1]
        ELSE IF ~js.isdict
        THEN [status |-> "Exception", extract |-> 1, model |-> 1]
        ELSE IF Get(js.value, "not_a_contract", FALSE)
        THEN [status |-> "ok", extract |-> 1, model |-> 1,
              value |-> RejectionRecord(js.value, filename)]
        ELSE [status |-> "ok", extract |-> 1, model |-> 1,
              value |-> AddMetadata(js.value, filename, country, ex.text)]

CannedEmail == <<"Great news!">>

\* The filter that lets only red clauses count.
ConcerningRedOnly(c) == Get(c, "risk_level", None) \in {"red"}

\* lines 209-212: risk_level in ["yellow", "red"].
Concerning(c) == Get(c, "risk_level", None) \in {"yellow", "red"}

\* The generator calling the model a second time when the first call raises.
generate_negotiation_email_retry(analysis, outcome) ==
    LET concerning_clauses == SelectSeq(Get(analysis, "clauses", <<>>), Concerning)
    IN  IF concerning_clauses = <<>>
        THEN [status |-> "ok", model |-> 0, email |-> CannedEmail]
        ELSE IF outcome.raises
        THEN [status |-> "Exception", model |-> 2, email |-> <<>>]
        ELSE [status |-> "ok", model |-> 1, email |-> Strip(outcome.text)]

\* lines 206-231.
generate_negotiation_email(analysis, outcome) ==
    LET concerning_clauses == SelectSeq(Get(analysis, "clauses", <<>>), Concerning)
    IN  IF concerning_clauses = <<>>
        THEN [status |-> "ok", model |-> 0, email |-> CannedEmail]
        ELSE IF outcome.raises
        THEN [status |-> "Exception", model |-> 1, email |-> <<>>]
        ELSE [status |-> "ok", model |-> 1, email |-> Strip(outcome.text)]

NoResp == [kind |-> "none"]

(***************************************************************************)
(* storage.py: one JSON file per analysis in data_dir.                     *)
(***************************************************************************)
NoCall == [op |-> "none"]

\* uuid.uuid4() returning any identifier, one handed out before included.
uuid4Any == Ids

\* uuid.uuid4(): a random 122-bit identifier, modelled by its contract: a
\* value it has not returned before.
uuid4 == Ids \ issued

\* The stem of a file in data_dir that save_analysis did not write.
ForeignStems == {0}

\* What a *.json file of data_dir can hold: an object, another JSON value,
\* or bytes json.load cannot decode.
JsonFile(data) == [kind |-> "object", data |-> data]

ArrayFile == [kind |-> "array"]

GarbageFile == [kind |-> "garbage"]

\* The record written without its identifier.
StampNoId(analysis, id, now) == Put(analysis, "created_at", now)

\* storage.py lines 27-28: analysis["id"], analysis["created_at"]. The
\* ISO-8601 text of utcnow() is kept as the clock reading; the texts
\* compare as the readings do.
Stamp(analysis, id, now) == Put(Put(analysis, "id", id), "created_at", now)

\* storage.py lines 37-44.
get_analysis(id) ==
    IF id \notin DOMAIN files THEN [status |-> "None"]
    ELSE IF files[id].kind = "garbage" THEN [status |-> "JSONDecodeError"]
    ELSE IF files[id].kind = "array" THEN [status |-> "ok", value |-> [items |-> <<>>]]
    ELSE [status |-> "ok", value |-> files[id].data]

Perms(S) ==
    {f \in [1..Cardinality(S) -> S] : \A i, j \in 1..Cardinality(S) : f[i] = f[j] => i = j}

\* storage.py lines 53-63: the entry a file adds to the listing; json.load
\* failing, or data.get failing on a value that is no dict, adds none.
ListEntry(stem) ==
    IF files[stem].kind # "object" THEN <<>>
    ELSE LET data == files[stem].data
         IN  <<[id |-> Get(data, "id", NoneInt),
                created_at |-> Get(data, "created_at", NoneInt),
                filename |-> Get(data, "filename", None),
                summary |-> Get(data, "summary", <<>>)]>>

RECURSIVE Collect(_)
Collect(order) ==
    IF order = <<>> THEN <<>> ELSE ListEntry(Head(order)) \o Collect(Tail(order))

\* list.sort(key=created_at, reverse=True) is stable: x goes after every
\* entry whose key is at least its own.
RECURSIVE InsertDesc(_, _)
InsertDesc(sorted, x) ==
    IF sorted = <<>> THEN <<x>>
    ELSE IF Head(sorted).created_at >= x.created_at
         THEN <<Head(sorted)>> \o InsertDesc(Tail(sorted), x)
         ELSE <<x>> \o sorted

RECURSIVE SortDesc(_)
SortDesc(s) ==
    IF s = <<>> THEN <<>>
    ELSE InsertDesc(SortDesc(SubSeq(s, 1, Len(s) - 1)), s[Len(s)])

\* storage.py lines 47-67, the files visited in glob order. Sorting two or
\* more entries compares their keys, and comparing None raises TypeError.
list_analyses(order) ==
    LET analyses == Collect(order)
    IN  IF Len(analyses) >= 2 /\ \E i \in 1..Len(analyses) : analyses[i].created_at = NoneInt
        THEN [status |-> "TypeError", items |-> <<>>]
        ELSE [status |-> "ok", items |-> SortDesc(analyses)]

\* The records handed to save_analysis.
SaveInputs ==
    {AddMetadata(JsonTable[DocGreen], "a.pdf", "United States", [lead |-> 0, body |-> 50]),
     AddMetadata(JsonTable[DocYellow], "b.txt", "India", [lead |-> 0, body |-> 501])}

StoreInit ==
    /\ files = <<>>
    /\ clock = 0
    /\ saved = <<>>
    /\ lastCall = NoCall
    /\ issued = {}
    /\ temp_storage = <<>> /\ reqs = <<>> /\ lastResp = NoResp
    /\ reply = <<>> /\ content = <<>> /\ fenced = FALSE /\ tag = <<>>
    /\ parsed = [pending |-> TRUE]

\* storage.py lines 24-34.
SaveAnalysis ==
    \E analysis \in SaveInputs, id \in uuid4 :
        /\ issued' = issued \cup {id}
        /\ files' = Put(files, id, JsonFile(Stamp(analysis, id, clock)))
        /\ saved' = Append(saved, [id |-> id, analysis |-> analysis])
        /\ lastCall' = [op |-> "save", id |-> id]
        /\ UNCHANGED <<clock, apiVars, parseVars>>

GetAnalysis ==
    \E id \in Ids \cup ForeignStems :
        /\ lastCall' = [op |-> "get", id |-> id, result |-> get_analysis(id)]
        /\ UNCHANGED <<files, clock, saved, issued, apiVars, parseVars>>

ListAnalyses ==
    \E order \in Perms(DOMAIN files) :
        /\ lastCall' = [op |-> "list", stems |-> DOMAIN files,
                        result |-> list_analyses(order)]
        /\ UNCHANGED <<files, clock, saved, issued, apiVars, parseVars>>

\* Time passes between two calls; the readings are enough to tell every
\* save from the one before.
Tick ==
    /\ clock < MaxIds
    /\ clock' = clock + 1
    /\ UNCHANGED <<files, saved, lastCall, issued, apiVars, parseVars>>

\* A file that save_analysis did not write appears in data_dir.
ForeignFile ==
    \E stem \in ForeignStems \ DOMAIN files,
       c \in {GarbageFile, ArrayFile, JsonFile([filename |-> "x.txt"])} :
        /\ files' = Put(files, stem, c)
        /\ UNCHANGED <<clock, saved, lastCall, issued, apiVars, parseVars>>

StoreNext == SaveAnalysis \/ GetAnalysis \/ ListAnalyses \/ Tick \/ ForeignFile

StoreSpec == StoreInit /\ [][StoreNext]_vars

(***************************************************************************)
(* Properties of storage.py, checked under StoreSpec.                      *)
(***************************************************************************)
\* What get_analysis returned, against the record that was saved under id.
RoundTrips(result, id, analysis) ==
    /\ result.status = "ok"
    /\ {"id", "created_at", "summary", "clauses", "filename"} \subseteq DOMAIN result.value
    /\ result.value.summary = analysis.summary
    /\ result.value.clauses = analysis.clauses
    /\ result.value.filename = analysis.filename
    /\ result.value.id = id

\* C1: get_analysis on the identifier a save returned yields the saved
\* summary, clauses and filename, with id and created_at added, whatever
\* was saved in between.
C1_RoundTrip ==
    /\ \A i \in 1..Len(saved) :
          RoundTrips(get_analysis(saved[i].id), saved[i].id, saved[i].analysis)
    /\ lastCall.op = "get" =>
          \A i \in 1..Len(saved) :
              saved[i].id = lastCall.id =>
                  RoundTrips(lastCall.result, saved[i].id, saved[i].analysis)

\* The first record saved was retrieved after a second one was saved.
C1_Witness ==
    /\ Len(saved) >= 2
    /\ lastCall.op = "get" /\ lastCall.id = saved[1].id
    /\ lastCall.result.status = "ok"
    /\ saved[1].analysis # saved[2].analysis

RECURSIVE IsDescending(_)
IsDescending(items) ==
    Len(items) < 2 \/
        (items[1].created_at >= items[2].created_at /\ IsDescending(Tail(items)))

\* C2: with only saved records in the directory, the listing holds one
\* summary per save, ordered by created_at descending, and the record saved
\* last comes first, also when creation timestamps are equal.
C2_ListNewestFirst ==
    (lastCall.op = "list" /\ lastCall.stems \subseteq Ids)
        => /\ lastCall.result.status = "ok"
           /\ Len(lastCall.result.items) = Len(saved)
           /\ \A i \in 1..Len(lastCall.result.items) :
                 DOMAIN lastCall.result.items[i] = {"id", "created_at", "filename", "summary"}
           /\ IsDescending(lastCall.result.items)
           /\ Len(saved) >= 1 => lastCall.result.items[1].id = saved[Len(saved)].id

\* C9: a file that holds undecodable bytes, a JSON value that is no object,
\* or an object without created_at never makes the listing fail, and the
\* saved records are still listed.
C9_ListBestEffort ==
    lastCall.op = "list"
        => /\ lastCall.result.status = "ok"
           /\ \A i \in 1..Len(saved) :
                 \E k \in 1..Len(lastCall.result.items) :
                     lastCall.result.items[k].id = saved[i].id

(***************************************************************************)
(* routes/contracts.py: the handlers. A handler runs on the event loop     *)
(* without interruption except where it awaits: the upload handler awaits  *)
(* file.read(), so it is two steps; the others are one.                    *)
(***************************************************************************)
UploadNames == {NamePdf, NameExe}

UploadFiles ==
    {UploadFile(FALSE, 10, TRUE, 0, 50),    \* reading it raises
     UploadFile(TRUE, 0, FALSE, 0, 0),      \* no bytes
     UploadFile(TRUE, 10, FALSE, 0, 0),     \* bytes that are no document
     UploadFile(TRUE, 50, TRUE, 1, 49),     \* 49 characters after a blank
     UploadFile(TRUE, 501, TRUE, 0, 501)}   \* longer than the preview

PastedTexts ==
    {[lead |-> 0, body |-> 0], [lead |-> 1, body |-> 49],
     [lead |-> 0, body |-> 50]}

Countries == {"United States"}

AnalysisReplies ==
    {ModelRaises, ModelReturns(DocGreen),
     ModelReturns(Fence \o TagJson \o <<"\n">> \o DocYellow \o <<"\n">> \o Fence),
     ModelReturns(DocNot), ModelReturns(DocArray), ModelReturns(Garbage)}

EmailReplies == {ModelRaises, ModelReturns(<<" ", "Hi", "\n">>)}

PastedFile(text) == UploadFile(TRUE, TextLen(text), TRUE, text.lead, text.body)

\* analyze_contract on every input of the model, computed once.
Analyzed ==
    [file \in UploadFiles \cup {PastedFile(t) : t \in PastedTexts},
     filename \in UploadNames \cup {NamePasted}, country \in Countries,
     outcome \in AnalysisReplies |->
        analyze_contract(file, filename, country, outcome)]

\* lines 147-148: the model's reply is an input of the runs that get as far
\* as generate_content, and of no other.
Replies(file, filename, country) ==
    IF Analyzed[file, filename, country, ModelRaises].model = 0
    THEN {ModelRaises} ELSE AnalysisReplies

Idle == [pc |-> "idle"]

Response(r, kind, status, id, extract, model, store, short, email) ==
    [kind |-> kind, status |-> status, id |-> id, extract |-> extract,
     model |-> model, store |-> store, short |-> short, email |-> email]

\* _temp_storage.get(analysis_id); Python's None is the empty mapping here,
\* the handlers test only its truth value.
lookup(id) == Get(temp_storage, id, <<>>)

\* The test that finds every identifier.
NotFoundNever(analysis) == FALSE

\* lines 114 and 125: not analysis.
NotFound(analysis) == DOMAIN analysis = {}

\* The tail of a handler that stores whatever analyze_contract left.
CompleteStoreAlways(r, kind, short, res) ==
    \E id \in uuid4 :
        /\ temp_storage' = Put(temp_storage, id, [id |-> id])
        /\ issued' = issued \cup {id}
        /\ lastResp' = IF res.status = "ok"
                        THEN Response(r, kind, 200, id, res.extract, res.model, 1, short, <<>>)
                        ELSE Response(r, kind, 500, NoneInt, res.extract, res.model, 1, short, <<>>)

\* lines 53-68 and 87-106: the tail the two analyze handlers share, from
\* the outcome of analyze_contract to the response.
Complete(r, kind, short, res) ==
    IF res.status = "ValueError"
    THEN /\ lastResp' = Response(r, kind, 400, NoneInt, res.extract, res.model, 0, short, <<>>)
         /\ UNCHANGED <<temp_storage, issued>>
    ELSE IF res.status = "Exception"
    THEN /\ lastResp' = Response(r, kind, 500, NoneInt, res.extract, res.model, 0, short, <<>>)
         /\ UNCHANGED <<temp_storage, issued>>
    ELSE \E id \in uuid4 :
            /\ temp_storage' = Put(temp_storage, id, Put(res.value, "id", id))
            /\ issued' = issued \cup {id}
            /\ lastResp' = Response(r, kind, 200, id, res.extract, res.model, 1, short, <<>>)

\* lines 33-45: the file name is checked, then the handler awaits the read.
AnalyzeBegin(r) ==
    /\ reqs[r].pc = "idle"
    /\ \E filename \in UploadNames, country \in Countries :
          IF ~\E ext \in allowed_extensions : EndsWith(Lower(filename), ext)
          THEN /\ lastResp' = Response(r, "analyze", 400, NoneInt, 0, 0, 0, FALSE, <<>>)
               /\ UNCHANGED reqs
          ELSE /\ reqs' = [reqs EXCEPT ![r] = [pc |-> "reading", filename |-> filename,
                                              country |-> country]]
               /\ UNCHANGED lastResp
    /\ UNCHANGED <<temp_storage, issued, storeVars, parseVars>>

\* lines 44-68: the read returns or raises; the rest runs to the response.
AnalyzeFinish(r) ==
    /\ reqs[r].pc = "reading"
    /\ reqs' = [reqs EXCEPT ![r] = Idle]
    /\ \E file \in UploadFiles :
          LET q == reqs[r]
              short == file.readable /\ file.size > 0 /\ StrippedLen(file.text) < MinTextLen
          IN  IF ~file.readable \/ file.size = 0
              THEN /\ lastResp' = Response(r, "analyze", 400, NoneInt, 0, 0, 0, short, <<>>)
                   /\ UNCHANGED <<temp_storage, issued>>
              ELSE \E outcome \in Replies(file, q.filename, q.country) :
                      Complete(r, "analyze", short,
                               Analyzed[file, q.filename, q.country, outcome])
    /\ UNCHANGED <<storeVars, parseVars>>

\* line 81: len(text.strip()) < 50.
TextTooShort(text) == StrippedLen(text) < MinTextLen

\* lines 71-106.
AnalyzeText(r) ==
    /\ reqs[r].pc = "idle"
    /\ \E text \in PastedTexts, country \in Countries :
          IF TextTooShort(text)
          THEN /\ lastResp' = Response(r, "analyze-text", 400, NoneInt, 0, 0, 0,
                                       StrippedLen(text) < MinTextLen, <<>>)
               /\ UNCHANGED <<temp_storage, issued>>
          ELSE \E outcome \in Replies(PastedFile(text), NamePasted, country) :
                  Complete(r, "analyze-text", StrippedLen(text) < MinTextLen,
                           Analyzed[PastedFile(text), NamePasted, country, outcome])
    /\ UNCHANGED <<reqs, storeVars, parseVars>>

\* lines 109-117.
GetAnalysisEndpoint(r) ==
    /\ reqs[r].pc = "idle"
    /\ \E id \in Ids :
          LET analysis == lookup(id)
          IN  lastResp' = IF NotFound(analysis)
                          THEN Response(r, "get", 404, id, 0, 0, 1, FALSE, <<>>)
                          ELSE Response(r, "get", 200, id, 0, 0, 1, FALSE, <<>>)
    /\ UNCHANGED <<temp_storage, reqs, issued, storeVars, parseVars>>

\* lines 120-133.
GenerateEmail(r) ==
    /\ reqs[r].pc = "idle"
    /\ \E id \in Ids, outcome \in EmailReplies :
          LET analysis == lookup(id)
              res == generate_negotiation_email(analysis, outcome)
          IN  lastResp' = IF NotFound(analysis)
                          THEN Response(r, "email", 404, id, 0, 0, 1, FALSE, <<>>)
                          ELSE IF res.status = "Exception"
                          THEN Response(r, "email", 500, id, 0, res.model, 1, FALSE, <<>>)
                          ELSE Response(r, "email", 200, id, 0, res.model, 1, FALSE, res.email)
    /\ UNCHANGED <<temp_storage, reqs, issued, storeVars, parseVars>>

Init ==
    /\ temp_storage = <<>>
    /\ reqs = [r \in Reqs |-> Idle]
    /\ lastResp = NoResp
    /\ issued = {}
    /\ files = <<>> /\ clock = 0 /\ saved = <<>> /\ lastCall = NoCall
    /\ reply = <<>> /\ content = <<>> /\ fenced = FALSE /\ tag = <<>>
    /\ parsed = [pending |-> TRUE]

Next ==
    \/ \E r \in Reqs : AnalyzeBegin(r)
    \/ \E r \in Reqs : AnalyzeFinish(r)
    \/ \E r \in Reqs : AnalyzeText(r)
    \/ \E r \in Reqs : GetAnalysisEndpoint(r)
    \/ \E r \in Reqs : GenerateEmail(r)

Spec == Init /\ [][Next]_vars

(***************************************************************************)
(* Properties of the handlers, checked under Spec.                         *)
(***************************************************************************)
AnalyzeKinds == {"analyze", "analyze-text"}

\* C3: identifiers are unique and never reused: every stored record is
\* keyed by its own identifier, and no step writes under an identifier that
\* already keys a record, so every stored record stays as it was stored.
C3_IdsNeverReused ==
    [][/\ \A id \in DOMAIN temp_storage :
            id \in DOMAIN temp_storage' /\ temp_storage'[id] = temp_storage[id]
       /\ \A id \in DOMAIN temp_storage' :
            "id" \in DOMAIN temp_storage'[id] /\ temp_storage'[id].id = id]_vars

\* Two records are stored, the second by an upload that finished while
\* another upload was waiting for its file.
C3_Witness ==
    /\ Cardinality(DOMAIN temp_storage) = 2
    /\ lastResp.kind = "analyze" /\ lastResp.status = 200
    /\ \E r \in Reqs : reqs[r].pc = "reading"

\* C4: get and generate-email on an identifier that keys no stored record
\* answer 404, never a server error, and never call the model.
C4_UnknownIdNotFound ==
    (lastResp.kind \in {"get", "email"} /\ lastResp.id \notin DOMAIN temp_storage)
        => (lastResp.status = 404 /\ lastResp.model = 0)

\* generate-email answered 404 for an unknown identifier while another
\* record was stored.
C4_Witness ==
    /\ lastResp.kind = "email" /\ lastResp.status = 404
    /\ lastResp.id \notin DOMAIN temp_storage
    /\ temp_storage # <<>>

\* C5 as claimed: text shorter than 50 characters after trimming is rejected
\* on both analyze paths with neither extraction nor the model invoked.
C5_RejectsBeforeExtraction ==
    (lastResp.kind \in AnalyzeKinds /\ lastResp.short)
        => (lastResp.status = 400 /\ lastResp.extract = 0 /\ lastResp.model = 0)

\* C5 as amended: such text is rejected with a validation error on both
\* paths and the model is never called; analyze-text rejects before
\* extraction, the upload path after it (it measures the extracted text).
C5_RejectsBeforeModel ==
    (lastResp.kind \in AnalyzeKinds /\ lastResp.short)
        => /\ lastResp.status = 400 /\ lastResp.model = 0
           /\ lastResp.kind = "analyze-text" => lastResp.extract = 0
           /\ lastResp.kind = "analyze" => lastResp.extract = 1

\* An uploaded file with too little text was rejected after extraction.
C5_Witness ==
    /\ lastResp.kind = "analyze" /\ lastResp.short
    /\ lastResp.status = 400 /\ lastResp.extract = 1 /\ lastResp.model = 0

\* C6: an analyze request that fails at the model call or at parsing the
\* reply leaves the stored records as they were and issues no identifier.
C6_FailurePersistsNothing ==
    [][(lastResp'.kind \in AnalyzeKinds /\ lastResp'.model = 1 /\ lastResp'.status # 200)
          => (temp_storage' = temp_storage /\ lastResp'.id = NoneInt)]_vars

\* An upload failed at the model call after an earlier analysis was stored.
C6_Witness ==
    /\ lastResp.kind = "analyze" /\ lastResp.model = 1 /\ lastResp.status = 500
    /\ temp_storage # <<>>

StoredClauses(id) ==
    IF "clauses" \in DOMAIN temp_storage[id] THEN temp_storage[id].clauses ELSE <<>>

Risky(id) ==
    \E i \in 1..Len(StoredClauses(id)) :
        StoredClauses(id)[i].risk_level \in {"yellow", "red"}

\* C8: generate-email on a stored analysis with no yellow or red clause
\* returns the canned message without a model call; with one, the model is
\* called exactly once.
C8_CannedWithoutModel ==
    (lastResp.kind = "email" /\ lastResp.id \in DOMAIN temp_storage)
        => IF Risky(lastResp.id)
           THEN lastResp.model = 1
           ELSE lastResp.status = 200 /\ lastResp.email = CannedEmail /\ lastResp.model = 0

\* The canned message was returned for an analysis whose clauses are all green.
C8_Witness ==
    /\ lastResp.kind = "email" /\ lastResp.id \in DOMAIN temp_storage
    /\ StoredClauses(lastResp.id) # <<>> /\ ~Risky(lastResp.id)
    /\ lastResp.email = CannedEmail /\ lastResp.model = 0

\* C10: a request invokes the model at most once and touches the store at
\* most once, whether it succeeds or fails.
C10_AtMostOnce ==
    lastResp.kind # "none" => (lastResp.model <= 1 /\ lastResp.store <= 1)

\* generate-email failed at its one model call, after its one store read.
C10_Witness ==
    /\ lastResp.kind = "email" /\ lastResp.status = 500
    /\ lastResp.model = 1 /\ lastResp.store = 1

(***************************************************************************)
(* ParseSpec: replies built from a document, optional padding and an       *)
(* optional code fence with a language tag.                                *)
(***************************************************************************)
RECURSIVE WsRuns(_)
WsRuns(n) ==
    IF n = 0 THEN {<<>>}
    ELSE WsRuns(n - 1) \cup
         {<<c>> \o w : c \in Whitespace, w \in {x \in WsRuns(n - 1) : Len(x) = n - 1}}

Tags == {<<>>, TagJson, <<"j", "s", "o">>, <<"j", "s">>}

Contents == DOMAIN JsonTable \cup {Garbage}

NotParsed == [pending |-> TRUE]

ParseInit ==
    /\ content \in Contents
    /\ fenced \in BOOLEAN
    /\ tag \in IF fenced THEN Tags ELSE {<<>>}
    /\ \E w1, w2, w3 \in WsRuns(MaxWs) :
          reply = IF fenced
                  THEN w3 \o Fence \o tag \o <<"\n">> \o w1 \o content \o w2 \o Fence \o w3
                  ELSE w1 \o content \o w2
    /\ parsed = NotParsed
    /\ temp_storage = <<>> /\ reqs = <<>> /\ lastResp = NoResp /\ issued = {}
    /\ files = <<>> /\ clock = 0 /\ saved = <<>> /\ lastCall = NoCall

Parse ==
    /\ parsed = NotParsed
    /\ parsed' = ParseReply(reply)
    /\ UNCHANGED <<reply, content, fenced, tag, apiVars, issued, storeVars>>

ParseNext == Parse

ParseSpec == ParseInit /\ [][ParseNext]_vars

\* C7: a reply that wraps a JSON text in a code fence, the opening fence bare
\* or tagged json, parses to the same outcome as the JSON text unwrapped.
C7_FencedParsesLikePlain ==
    (parsed # NotParsed /\ fenced /\ tag \in {<<>>, TagJson})
        => parsed = ParseReply(content)

====
